---- MODULE Spec2Model ----
(***************************************************************************)
(* A model of src/core/Engine.js: the frame loop Engine.run and the        *)
(* per-tick pipeline Engine.update.                                        *)
(*                                                                         *)
(* Time is counted in units of 1/_fps ms, so that 1000/_fps ms (the        *)
(* engine's _delta) is the integer 1000 and every delta is an integer.     *)
(* Quotients (timing.correction, timing.fps) are reduced fractions <<n,d>>.*)
(*                                                                         *)
(* The statements of the frame callback and of Engine.update are steps of  *)
(* one thread of control (pc); callee modules that are not part of the     *)
(* file (Body, Constraint, Resolver, Sleeping, Metrics, Render, Events)    *)
(* are represented by the record of their calls in `log`, which holds the  *)
(* calls, the event dispatches and the writes to engine.timing of the      *)
(* current frame in the order they were made.                              *)
(***************************************************************************)
EXTENDS Integers, Sequences, FiniteSets, TLC

VARIABLES
    engine,     \* enabled, iteration counts, enableSleeping, broadphase.current, render.options.enabled
    timing,     \* engine.timing
    pairs,      \* engine.pairs
    world,      \* engine.world.bodies
    grid,       \* engine.broadphase.grid.instance
    mouse,      \* engine.input.mouse.sourceEvents
    run,        \* the closure of Engine.run: delta, correction, counterTimestamp, frameCounter, deltaHistory
    frame,      \* the locals of the current frame callback: timestamp argument, event object
    upd,        \* the parameters and locals of the current Engine.update call
    pc,         \* the statement about to be executed
    pending,    \* frame callbacks requested and not yet fired
    frames,     \* frame callbacks started so far
    log         \* the calls made in the current frame, in order

vars == <<engine, timing, pairs, world, grid, mouse, run, frame, upd, pc, pending, frames, log>>

(***************************************************************************)
(* Bounds of the model.                                                    *)
(***************************************************************************)
MaxIter == 1        \* iteration counts range over 0..MaxIter (and the defaults)
MaxFrames == 4      \* frame callbacks per behaviour
MaxWorldFrames == 3 \* frame callbacks per behaviour of a world with bodies
MaxBodies == 3      \* bodies in the world
MaxSmoothFrames == 10 \* frame callbacks per behaviour that fills the delta history
MaxClears == 1      \* calls of Engine.clear per frame

(***************************************************************************)
(* Constants of Engine.js.                                                 *)
(***************************************************************************)
_fps == 60
_deltaSampleSize == 8
Ms == _fps                          \* model units per millisecond
_delta == (1000 * Ms) \div _fps     \* 1000 / _fps ms

Undefined == -1                     \* the timestamp argument of the first, direct call of render

\* Frame timestamps handed to the callback: a repeat of 0, a gap below
\* deltaMin, gaps inside and above [deltaMin, deltaMax], and one above 1000 ms.
TimeStamps == {0, 400, 1500, 4000, 61 * 1000}

\* The timestamps of a steady frame rate, and one after a pause of over 1000 ms.
SteadyTimeStamps == {1000, 61 * 1000}

\* The time from the last tick to the next callback: none, and five frames' worth.
FrameGaps == {0, 5 * 1000}

(***************************************************************************)
(* Fractions.                                                              *)
(***************************************************************************)
RECURSIVE Gcd(_, _)
Gcd(a, b) == IF b = 0 THEN a ELSE Gcd(b, a % b)

Abs(x) == IF x < 0 THEN -x ELSE x

\* n / d as a reduced fraction, d > 0
Frac(n, d) ==
    LET g == Gcd(Abs(n), d)
    IN  IF g = 0 THEN <<0, 1>> ELSE <<n \div g, d \div g>>

(***************************************************************************)
(* Engine.create: the defaults and the engines the model starts from.      *)
(***************************************************************************)
defaults ==
    [ enabled              |-> TRUE,
      positionIterations   |-> 6,
      velocityIterations   |-> 4,
      constraintIterations |-> 1,
      enableSleeping       |-> FALSE,
      timeScale            |-> 1 ]

defaultPairs ==
    [ table           |-> <<>>,
      list            |-> <<>>,
      collisionStart  |-> {},
      collisionActive |-> {},
      collisionEnd    |-> {} ]

defaultTiming ==
    [ fps        |-> Frac(_fps, 1),
      timestamp  |-> 0,
      delta      |-> _delta,
      correction |-> Frac(1, 1),
      deltaMin   |-> (1000 * Ms) \div _fps,
      deltaMax   |-> (2 * 1000 * Ms) \div _fps ]

defaultBroadphase == "grid"

\* The engines the model starts from: Engine.create's defaults, and the
\* engines whose options override the iteration counts, sleeping, the
\* broad-phase strategy, the renderer switch and the delta limits.
Iterations == 0..MaxIter

Options ==
    [ positionIterations : Iterations, velocityIterations : Iterations,
      constraintIterations : Iterations, enableSleeping : BOOLEAN ]
    \cup [ enableSleeping : BOOLEAN ]

\* Common.extend(defaults, options)
Extend(base, options) ==
    [ f \in DOMAIN base |-> IF f \in DOMAIN options THEN options[f] ELSE base[f] ]

Engines == { Extend(defaults, o) : o \in Options }

DeltaLimits == { <<defaultTiming.deltaMin, defaultTiming.deltaMax>>, <<500, 800>>, <<2000, 1000>> }

Worlds == { 1..n : n \in 0..MaxBodies }

\* The first arguments of Engine.create: an element of the page, nothing at
\* all, and plain objects (an empty one, and settings with and without an
\* input object of their own).
DomElement == [nodeType |-> 1]

JsUndefined == [undefined |-> TRUE]

PlainObjects ==
    { [plain |-> TRUE],
      [positionIterations |-> 2, input |-> "input"],
      [positionIterations |-> 2, velocityIterations |-> 2] }

FirstArguments == {DomElement, JsUndefined} \cup PlainObjects

\* Common.isElement(obj)
IsElement(obj) == "nodeType" \in DOMAIN obj

\* the value of object.field where the code tests it: a missing field is falsy
Truthy(object, field) == field \in DOMAIN object /\ object[field]

(***************************************************************************)
(* The record of calls.                                                    *)
(***************************************************************************)
Call(op, ref, n) == [kind |-> "call", op |-> op, ref |-> ref, n |-> n]

Dispatch(name, ref, n) == [kind |-> "event", op |-> name, ref |-> ref, n |-> n]

\* an assignment to the fields of an object of the engine
Write(object, n) == [kind |-> "write", op |-> object, ref |-> object, n |-> n]

\* Events.trigger(engine, names, event): one dispatch per name, in the order of the names
Trigger(l, names, ref, n) == l \o [k \in 1..Len(names) |-> Dispatch(names[k], ref, n)]

(***************************************************************************)
(* Program text: the statements of the frame callback and of Engine.update *)
(* in source order.                                                        *)
(***************************************************************************)
\* the frame callback with beforeTick dispatched after the timing update
RenderBodyTimingFirst ==
    << "_requestAnimationFrame", "enabled", "event", "timing", "beforeTick",
       "tick beforeUpdate", "Engine.update", "_triggerCollisionEvents",
       "_triggerMouseEvents", "afterUpdate beforeRender", "render",
       "afterTick afterRender" >>

\* the frame callback that tests engine.enabled only after beforeTick
RenderBodyEnabledLate ==
    << "_requestAnimationFrame", "event", "beforeTick", "enabled", "timing",
       "tick beforeUpdate", "Engine.update", "_triggerCollisionEvents",
       "_triggerMouseEvents", "afterUpdate beforeRender", "render",
       "afterTick afterRender" >>

\* the frame callback that asks for the next frame only once it found the engine enabled
RenderBodyRequestLate ==
    << "enabled", "_requestAnimationFrame", "event", "beforeTick", "timing",
       "tick beforeUpdate", "Engine.update", "_triggerCollisionEvents",
       "_triggerMouseEvents", "afterUpdate beforeRender", "render",
       "afterTick afterRender" >>

\* the frame callback with the renderer called before beforeRender is dispatched
RenderBodyRenderEarly ==
    << "_requestAnimationFrame", "enabled", "event", "beforeTick", "timing",
       "tick beforeUpdate", "Engine.update", "_triggerCollisionEvents",
       "_triggerMouseEvents", "render", "afterUpdate beforeRender",
       "afterTick afterRender" >>

RenderBody ==
    << "_requestAnimationFrame", "enabled", "event", "beforeTick", "timing",
       "tick beforeUpdate", "Engine.update", "_triggerCollisionEvents",
       "_triggerMouseEvents", "afterUpdate beforeRender", "render",
       "afterTick afterRender" >>

\* Engine.update with the two Manager calls exchanged
UpdateBodyEvictFirst ==
    << "Metrics.reset", "Sleeping.update", "Body.applyGravityAll",
       "MouseConstraint.update", "Body.updateAll", "Constraint.updateAll",
       "broadphase", "detector", "Manager.removeOldPairs", "Manager.updatePairs",
       "Sleeping.afterCollisions", "Resolver.preSolveVelocity",
       "Resolver.solveVelocity", "Resolver.solvePosition",
       "Resolver.postSolvePosition", "Metrics.update", "Body.resetForcesAll",
       "return" >>

\* Engine.update with the integrator moved behind the Resolver
UpdateBodyIntegrateLast ==
    << "Metrics.reset", "Sleeping.update", "Body.applyGravityAll",
       "MouseConstraint.update", "Constraint.updateAll",
       "broadphase", "detector", "Manager.updatePairs", "Manager.removeOldPairs",
       "Sleeping.afterCollisions", "Resolver.preSolveVelocity",
       "Resolver.solveVelocity", "Resolver.solvePosition",
       "Resolver.postSolvePosition", "Body.updateAll", "Metrics.update",
       "Body.resetForcesAll", "return" >>

\* Engine.update with the wake check moved behind the warm start
UpdateBodyWakeLate ==
    << "Metrics.reset", "Sleeping.update", "Body.applyGravityAll",
       "MouseConstraint.update", "Body.updateAll", "Constraint.updateAll",
       "broadphase", "detector", "Manager.updatePairs", "Manager.removeOldPairs",
       "Resolver.preSolveVelocity", "Sleeping.afterCollisions",
       "Resolver.solveVelocity", "Resolver.solvePosition",
       "Resolver.postSolvePosition", "Metrics.update", "Body.resetForcesAll",
       "return" >>

\* Engine.update with the constraints solved after the broad-phase pass
UpdateBodyConstraintsLate ==
    << "Metrics.reset", "Sleeping.update", "Body.applyGravityAll",
       "MouseConstraint.update", "Body.updateAll",
       "broadphase", "Constraint.updateAll", "detector", "Manager.updatePairs",
       "Manager.removeOldPairs", "Sleeping.afterCollisions",
       "Resolver.preSolveVelocity", "Resolver.solveVelocity",
       "Resolver.solvePosition", "Resolver.postSolvePosition", "Metrics.update",
       "Body.resetForcesAll", "return" >>

UpdateBody ==
    << "Metrics.reset", "Sleeping.update", "Body.applyGravityAll",
       "MouseConstraint.update", "Body.updateAll", "Constraint.updateAll",
       "broadphase", "detector", "Manager.updatePairs", "Manager.removeOldPairs",
       "Sleeping.afterCollisions", "Resolver.preSolveVelocity",
       "Resolver.solveVelocity", "Resolver.solvePosition",
       "Resolver.postSolvePosition", "Metrics.update", "Body.resetForcesAll",
       "return" >>

Labels(body) == { body[k] : k \in 1..Len(body) }

\* the statement after statement x of body, or `last` after its last statement
After(body, x, last) ==
    LET k == CHOOSE j \in 1..Len(body) : body[j] = x
    IN  IF k < Len(body) THEN body[k + 1] ELSE last

InUpdate == pc \in Labels(UpdateBody)

AfterInRender(x) == After(RenderBody, x, "idle")

AfterInUpdate(x) == After(UpdateBody, x, AfterInRender("Engine.update"))

(***************************************************************************)
(* Engine.run: the delta of a frame.                                       *)
(***************************************************************************)
\* delta = (timestamp - timing.timestamp) || _delta
RawDelta(timestamp, previous) ==
    IF timestamp - previous = 0 THEN _delta ELSE timestamp - previous

\* the push without the slice
PushSampleKeepAll(history, d) == Append(history, d)

\* deltaHistory.push(delta); deltaHistory = deltaHistory.slice(-_deltaSampleSize)
PushSample(history, d) ==
    LET h == Append(history, d)
    IN  IF Len(h) > _deltaSampleSize
        THEN SubSeq(h, Len(h) - _deltaSampleSize + 1, Len(h))
        ELSE h

\* Math.min.apply(null, deltaHistory), for a history that is not empty
MinOf(history) ==
    CHOOSE m \in { history[k] : k \in 1..Len(history) } :
        \A k \in 1..Len(history) : m <= history[k]

\* the limit without its second line
LimitDeltaBelowOnly(d, deltaMin, deltaMax) == IF d < deltaMin THEN deltaMin ELSE d

\* delta < deltaMin ? deltaMin : delta, then delta > deltaMax ? deltaMax : delta
LimitDelta(d, deltaMin, deltaMax) ==
    LET lo == IF d < deltaMin THEN deltaMin ELSE d
    IN  IF lo > deltaMax THEN deltaMax ELSE lo

(***************************************************************************)
(* The collaborators of Engine.update whose results it stores: the grid,   *)
(* the detector and the pair manager.  Bodies have no geometry here, so    *)
(* which bodies share a cell and which of them overlap is left open.       *)
(***************************************************************************)
\* The bodies stand in a row: only neighbours can share a cell or overlap.
PairsOf(bodies) == { <<a, b>> \in bodies \X bodies : b = a + 1 }

\* the candidate lists a grid update may leave in grid.pairsList
GridCandidates(bodies) == SUBSET PairsOf(bodies)

\* the collisions a detector may report for what the broad-phase handed it
Detections(ref) ==
    IF ref = "broadphase.instance.pairsList"
    THEN SUBSET grid.pairsList
    ELSE SUBSET PairsOf(world)

pairMaxIdleLife == 1000 * Ms

Before(p, q) == p[1] < q[1] \/ (p[1] = q[1] /\ p[2] < q[2])

RECURSIVE InOrder(_)
InOrder(S) ==
    IF S = {} THEN <<>>
    ELSE LET p == CHOOSE x \in S : \A y \in S \ {x} : Before(x, y)
         IN  <<p>> \o InOrder(S \ {p})

\* Manager.updatePairs(pairs, collisions, timestamp)
ManagerUpdatePairs(P, collisions, timestamp) ==
    LET old == DOMAIN P.table
    IN  [ table |-> [ p \in old \cup collisions |->
                        IF p \in collisions
                        THEN [isActive |-> TRUE, timeUpdated |-> timestamp]
                        ELSE [isActive |-> FALSE, timeUpdated |-> P.table[p].timeUpdated] ],
          list |-> P.list \o InOrder(collisions \ old),
          collisionStart  |-> collisions \ old,
          collisionActive |-> collisions \cap old,
          collisionEnd    |-> old \ collisions ]

\* Manager.removeOldPairs(pairs, timestamp)
ManagerRemoveOldPairs(P, timestamp) ==
    LET keep == { p \in DOMAIN P.table :
                    timestamp - P.table[p].timeUpdated <= pairMaxIdleLife }
    IN  [ P EXCEPT !.table = [ p \in keep |-> P.table[p] ],
                   !.list = SelectSeq(P.list, LAMBDA p : p \in keep) ]

(***************************************************************************)
(* Initial state: an engine as Engine.create returns it, Engine.run not    *)
(* yet called.                                                             *)
(***************************************************************************)
NoFrame == [timestamp |-> Undefined, event |-> [timestamp |-> Undefined]]

NoUpdate ==
    [ delta |-> 0, correction |-> Frac(1, 1), broadphase |-> "none", i |-> 0,
      broadphasePairs |-> "none", collisions |-> {}, timestamp |-> 0 ]

\* Engine.create(element, options) for an element of the page, with the
\* renderer and the broad-phase it attaches
Create(e, broadphase, renderEnabled) ==
    [ enabled              |-> e.enabled,
      positionIterations   |-> e.positionIterations,
      velocityIterations   |-> e.velocityIterations,
      constraintIterations |-> e.constraintIterations,
      enableSleeping       |-> e.enableSleeping,
      timeScale            |-> e.timeScale,
      broadphase           |-> broadphase,
      renderEnabled        |-> renderEnabled ]

Created ==
    /\ pairs = [defaultPairs EXCEPT !.table = [p \in {} |-> 0]]
    /\ grid = [pairsList |-> {}]
    /\ mouse = {}
    /\ run = [ delta |-> 0, correction |-> Frac(1, 1), counterTimestamp |-> 0,
               frameCounter |-> 0, deltaHistory |-> <<>> ]
    /\ frame = NoFrame
    /\ upd = NoUpdate
    /\ pc = "init"
    /\ pending = 0
    /\ frames = 0
    /\ log = <<>>

\* every engine configuration, in an empty world
Init ==
    /\ engine \in { Create(e, b, r) : e \in Engines, b \in {"grid", "bruteForce"}, r \in BOOLEAN }
    /\ timing = defaultTiming
    /\ world = {}
    /\ Created

\* the default engine with either broad-phase strategy, in each of the worlds
WorldInit ==
    /\ engine \in { Create(defaults, b, TRUE) : b \in {"grid", "bruteForce"} }
    /\ timing = defaultTiming
    /\ world \in Worlds
    /\ Created

\* the default engine with each of the delta limits, in an empty world
TimingInit ==
    /\ engine = Create(defaults, defaultBroadphase, TRUE)
    /\ timing \in { [defaultTiming EXCEPT !.deltaMin = l[1], !.deltaMax = l[2]] : l \in DeltaLimits }
    /\ world = {}
    /\ Created

\* Engine.create is about to be called: `engine` holds the two arguments of
\* the call, timing and pairs are those of the `defaults` literal
CreateInit ==
    /\ engine \in [element : FirstArguments, options : Options \cup {JsUndefined}]
    /\ timing = defaultTiming
    /\ pairs = [defaultPairs EXCEPT !.table = [p \in {} |-> 0]]
    /\ world = {}
    /\ grid = [pairsList |-> {}]
    /\ mouse = {}
    /\ run = [ delta |-> 0, correction |-> Frac(1, 1), counterTimestamp |-> 0,
               frameCounter |-> 0, deltaHistory |-> <<>> ]
    /\ frame = NoFrame
    /\ upd = NoUpdate
    /\ pc = "Engine.create"
    /\ pending = 0
    /\ frames = 0
    /\ log = <<>>

\* Engine.create(element, options), lines 58 to 87: the engine it returns, or
\* the TypeError of reading a property of undefined
EngineCreate ==
    /\ pc = "Engine.create"
    /\ LET element  == engine.element
           extended == Extend(defaults, engine.options)
           \* engine = Common.isElement(element) ? (engine || {}) : element
           fromDefaults == IsElement(element)
           chosen   == IF fromDefaults THEN extended ELSE element
           \* engine.render of undefined, or engine.input.mouse without engine.input
           raises   == \/ chosen = JsUndefined
                       \/ ~fromDefaults /\ "input" \notin DOMAIN chosen
           settings == DOMAIN chosen \cap DOMAIN defaults
       IN  IF raises
           THEN /\ engine' = [raised |-> "TypeError"]
                /\ pc' = "raised"
                /\ UNCHANGED <<timing, pairs>>
           ELSE /\ engine' = [ f \in settings \cup {"broadphase", "renderEnabled"} |->
                                 CASE f = "broadphase" -> defaultBroadphase
                                   [] f = "renderEnabled" -> TRUE
                                   [] OTHER -> chosen[f] ]
                /\ timing' = IF fromDefaults THEN defaultTiming ELSE JsUndefined
                /\ pairs' = IF fromDefaults THEN pairs ELSE JsUndefined
                /\ pc' = "init"
    /\ UNCHANGED <<world, grid, mouse, run, frame, upd, pending, frames, log>>

(***************************************************************************)
(* Engine.run and the frame callback `render`.                             *)
(***************************************************************************)
\* a callback that could fire while another frame is still running
CallStackIgnored == pc # "init"

\* a requested callback is fired by the browser between callbacks, never inside one
CallStackEmpty == pc = "idle"

\* Engine.run(engine): the closure is set up and render is called directly
EngineRun ==
    /\ pc = "init"
    /\ run' = [ delta |-> 0, correction |-> Frac(1, 1), counterTimestamp |-> 0,
                frameCounter |-> 0, deltaHistory |-> <<>> ]
    /\ frame' = NoFrame
    /\ frames' = frames + 1
    /\ log' = <<>>
    /\ pc' = RenderBody[1]
    /\ UNCHANGED <<engine, timing, pairs, world, grid, mouse, upd, pending>>

\* the browser fires a requested callback with a timestamp
FrameCallbackAt(timestamps, limit) ==
    /\ CallStackEmpty
    /\ pending > 0
    /\ frames < limit
    /\ \E ts \in timestamps :
         frame' = [timestamp |-> ts, event |-> [timestamp |-> Undefined]]
    /\ pending' = pending - 1
    /\ frames' = frames + 1
    /\ log' = <<>>
    /\ pc' = RenderBody[1]
    /\ UNCHANGED <<engine, timing, pairs, world, grid, mouse, run, upd>>

\* the browser fires a requested callback some time after the last tick
FrameCallbackAfter(gaps, limit) ==
    /\ CallStackEmpty
    /\ pending > 0
    /\ frames < limit
    /\ \E gap \in gaps :
         frame' = [timestamp |-> timing.timestamp + gap, event |-> [timestamp |-> Undefined]]
    /\ pending' = pending - 1
    /\ frames' = frames + 1
    /\ log' = <<>>
    /\ pc' = RenderBody[1]
    /\ UNCHANGED <<engine, timing, pairs, world, grid, mouse, run, upd>>

\* _requestAnimationFrame(render)
RequestFrame ==
    /\ pc = "_requestAnimationFrame"
    /\ pending' = pending + 1
    /\ pc' = AfterInRender(pc)
    /\ UNCHANGED <<engine, timing, pairs, world, grid, mouse, run, frame, upd, frames, log>>

\* if (!engine.enabled) return;
CheckEnabled ==
    /\ pc = "enabled"
    /\ IF Truthy(engine, "enabled")
       THEN pc' = AfterInRender(pc) /\ frame' = frame
       ELSE pc' = "idle" /\ frame' = NoFrame
    /\ UNCHANGED <<engine, timing, pairs, world, grid, mouse, run, upd, pending, frames, log>>

\* timestamp = timestamp || 0; var event = { timestamp: timestamp };
CreateEvent ==
    /\ pc = "event"
    /\ LET ts == IF frame.timestamp = Undefined THEN 0 ELSE frame.timestamp
       IN  frame' = [timestamp |-> ts, event |-> [timestamp |-> ts]]
    /\ pc' = AfterInRender(pc)
    /\ UNCHANGED <<engine, timing, pairs, world, grid, mouse, run, upd, pending, frames, log>>

\* Events.trigger(engine, 'beforeTick', event)
BeforeTick ==
    /\ pc = "beforeTick"
    /\ log' = Trigger(log, <<"beforeTick">>, "event", frame.event.timestamp)
    /\ pc' = AfterInRender(pc)
    /\ UNCHANGED <<engine, timing, pairs, world, grid, mouse, run, frame, upd, pending, frames>>

\* the timing update with timing.delta stored before the correction is computed
UpdateTimingStoredFirst ==
    /\ pc = "timing"
    /\ LET raw     == RawDelta(frame.timestamp, timing.timestamp)
           history == PushSample(run.deltaHistory, raw)
           delta   == LimitDelta(MinOf(history), timing.deltaMin, timing.deltaMax)
           correction == Frac(delta, delta)
           counter == run.frameCounter + 1
           elapsed == frame.timestamp - run.counterTimestamp
           second  == elapsed >= 1000 * Ms
       IN  /\ timing' = [ timing EXCEPT
                            !.timestamp = frame.timestamp,
                            !.correction = correction,
                            !.delta = delta,
                            !.fps = IF second THEN Frac(counter * elapsed, 1000 * Ms) ELSE @ ]
           /\ run' = [ delta |-> delta,
                       correction |-> correction,
                       counterTimestamp |-> IF second THEN frame.timestamp ELSE run.counterTimestamp,
                       frameCounter |-> IF second THEN 0 ELSE counter,
                       deltaHistory |-> history ]
    /\ log' = Append(log, Write("engine.timing", frame.timestamp))
    /\ pc' = AfterInRender(pc)
    /\ UNCHANGED <<engine, pairs, world, grid, mouse, frame, upd, pending, frames>>

\* the delta, the correction, the timing object and the fps counter
UpdateTiming ==
    /\ pc = "timing"
    /\ LET raw     == RawDelta(frame.timestamp, timing.timestamp)
           history == PushSample(run.deltaHistory, raw)
           delta   == LimitDelta(MinOf(history), timing.deltaMin, timing.deltaMax)
           correction == Frac(delta, timing.delta)
           counter == run.frameCounter + 1
           elapsed == frame.timestamp - run.counterTimestamp
           second  == elapsed >= 1000 * Ms
       IN  /\ timing' = [ timing EXCEPT
                            !.timestamp = frame.timestamp,
                            !.correction = correction,
                            !.delta = delta,
                            !.fps = IF second THEN Frac(counter * elapsed, 1000 * Ms) ELSE @ ]
           /\ run' = [ delta |-> delta,
                       correction |-> correction,
                       counterTimestamp |-> IF second THEN frame.timestamp ELSE run.counterTimestamp,
                       frameCounter |-> IF second THEN 0 ELSE counter,
                       deltaHistory |-> history ]
    /\ log' = Append(log, Write("engine.timing", frame.timestamp))
    /\ pc' = AfterInRender(pc)
    /\ UNCHANGED <<engine, pairs, world, grid, mouse, frame, upd, pending, frames>>

\* Events.trigger(engine, 'tick beforeUpdate', event)
TickBeforeUpdate ==
    /\ pc = "tick beforeUpdate"
    /\ log' = Trigger(log, <<"tick", "beforeUpdate">>, "event", frame.event.timestamp)
    /\ pc' = AfterInRender(pc)
    /\ UNCHANGED <<engine, timing, pairs, world, grid, mouse, run, frame, upd, pending, frames>>

\* Engine.update(engine, delta, correction): the call and the locals' initial values
CallUpdate ==
    /\ pc = "Engine.update"
    /\ upd' = [ NoUpdate EXCEPT !.delta = run.delta, !.correction = run.correction,
                                !.broadphase = engine.broadphase ]
    /\ log' = Append(log, Call("Engine.update", "engine", run.delta))
    /\ pc' = UpdateBody[1]
    /\ UNCHANGED <<engine, timing, pairs, world, grid, mouse, run, frame, pending, frames>>

(***************************************************************************)
(* Engine.update, statement by statement.                                  *)
(***************************************************************************)
\* a statement of Engine.update that makes the given calls and falls through
Statement(label, calls) ==
    /\ pc = label
    /\ log' = log \o calls
    /\ pc' = AfterInUpdate(label)

\* the loop test that runs one iteration too many
IterateInclusive(i, iterations) == i <= iterations

\* the test of the three for loops: i < iterations
Iterate(i, iterations) == i < iterations

\* for (i = 0; i < iterations; i++) call: one iteration, or the exit
Loop(label, iterations, call) ==
    /\ pc = label
    /\ IF Iterate(upd.i, iterations)
       THEN /\ log' = Append(log, call)
            /\ upd' = [upd EXCEPT !.i = @ + 1]
            /\ pc' = pc
       ELSE /\ log' = log
            /\ upd' = [upd EXCEPT !.i = 0]
            /\ pc' = AfterInUpdate(label)

MetricsReset ==
    /\ Statement("Metrics.reset", << Call("Metrics.reset", "engine.metrics", 0) >>)
    /\ UNCHANGED <<engine, timing, pairs, world, grid, mouse, run, frame, upd, pending, frames>>

\* if (engine.enableSleeping) Sleeping.update(world.bodies)
SleepingUpdate ==
    /\ Statement("Sleeping.update",
                 IF engine.enableSleeping
                 THEN << Call("Sleeping.update", "world.bodies", 0) >>
                 ELSE << >>)
    /\ UNCHANGED <<engine, timing, pairs, world, grid, mouse, run, frame, upd, pending, frames>>

ApplyGravityAll ==
    /\ Statement("Body.applyGravityAll", << Call("Body.applyGravityAll", "world.bodies", 0) >>)
    /\ UNCHANGED <<engine, timing, pairs, world, grid, mouse, run, frame, upd, pending, frames>>

MouseConstraintUpdate ==
    /\ Statement("MouseConstraint.update", << Call("MouseConstraint.update", "engine.mouseConstraint", 0) >>)
    /\ UNCHANGED <<engine, timing, pairs, world, grid, mouse, run, frame, upd, pending, frames>>

\* Body.updateAll(world.bodies, delta * engine.timeScale, correction, world.bounds)
BodyUpdateAll ==
    /\ Statement("Body.updateAll",
                 << Call("Body.updateAll", "world.bodies", upd.delta * engine.timeScale) >>)
    /\ UNCHANGED <<engine, timing, pairs, world, grid, mouse, run, frame, upd, pending, frames>>

ConstraintUpdateAll ==
    /\ Loop("Constraint.updateAll", engine.constraintIterations,
            Call("Constraint.updateAll", "world.constraints", 0))
    /\ UNCHANGED <<engine, timing, pairs, world, grid, mouse, run, frame, pending, frames>>

\* a broad-phase pass that updates the grid whatever the strategy is
BroadphaseAlwaysGrid ==
    /\ pc = "broadphase"
    /\ \E candidates \in GridCandidates(world) : grid' = [grid EXCEPT !.pairsList = candidates]
    /\ upd' = [upd EXCEPT !.broadphasePairs = "broadphase.instance.pairsList"]
    /\ log' = Append(log, Call("Grid.update", "world.bodies", 0))
    /\ pc' = AfterInUpdate(pc)
    /\ UNCHANGED <<engine, timing, pairs, world, mouse, run, frame, pending, frames>>

\* the broad-phase pass: the grid's update and list, or the bodies themselves
Broadphase ==
    /\ pc = "broadphase"
    /\ IF upd.broadphase = "grid"
       THEN /\ \E candidates \in GridCandidates(world) : grid' = [grid EXCEPT !.pairsList = candidates]
            /\ upd' = [upd EXCEPT !.broadphasePairs = "broadphase.instance.pairsList"]
            /\ log' = Append(log, Call("Grid.update", "world.bodies", 0))
       ELSE /\ grid' = grid
            /\ upd' = [upd EXCEPT !.broadphasePairs = "world.bodies"]
            /\ log' = log
    /\ pc' = AfterInUpdate(pc)
    /\ UNCHANGED <<engine, timing, pairs, world, mouse, run, frame, pending, frames>>

\* var collisions = broadphase.detector(broadphasePairs, engine)
Narrowphase ==
    /\ pc = "detector"
    /\ \E collisions \in Detections(upd.broadphasePairs) :
         upd' = [upd EXCEPT !.collisions = collisions]
    /\ log' = Append(log, Call(IF upd.broadphase = "grid" THEN "Detector.collisions"
                                                        ELSE "Detector.bruteForce",
                               upd.broadphasePairs, 0))
    /\ pc' = AfterInUpdate(pc)
    /\ UNCHANGED <<engine, timing, pairs, world, grid, mouse, run, frame, pending, frames>>

\* a pair update that dispatches the collision events itself
UpdatePairsDispatching ==
    /\ pc = "Manager.updatePairs"
    /\ upd' = [upd EXCEPT !.timestamp = timing.timestamp]
    /\ pairs' = ManagerUpdatePairs(pairs, upd.collisions, timing.timestamp)
    /\ log' = Append(log, Call("Manager.updatePairs", "collisions", timing.timestamp))
                \o (IF pairs'.collisionStart # {}
                    THEN << Dispatch("collisionStart", "collisionStart", Undefined) >>
                    ELSE << >>)
    /\ pc' = AfterInUpdate(pc)
    /\ UNCHANGED <<engine, timing, world, grid, mouse, run, frame, pending, frames>>

\* timestamp = engine.timing.timestamp; Manager.updatePairs(pairs, collisions, timestamp)
UpdatePairs ==
    /\ pc = "Manager.updatePairs"
    /\ upd' = [upd EXCEPT !.timestamp = timing.timestamp]
    /\ pairs' = ManagerUpdatePairs(pairs, upd.collisions, timing.timestamp)
    /\ log' = Append(log, Call("Manager.updatePairs", "collisions", timing.timestamp))
    /\ pc' = AfterInUpdate(pc)
    /\ UNCHANGED <<engine, timing, world, grid, mouse, run, frame, pending, frames>>

\* an eviction that is handed the tick's delta in place of its timestamp
RemoveOldPairsByDelta ==
    /\ pc = "Manager.removeOldPairs"
    /\ pairs' = ManagerRemoveOldPairs(pairs, upd.delta)
    /\ log' = Append(log, Call("Manager.removeOldPairs", "pairs", upd.delta))
    /\ pc' = AfterInUpdate(pc)
    /\ UNCHANGED <<engine, timing, world, grid, mouse, run, frame, upd, pending, frames>>

\* Manager.removeOldPairs(pairs, timestamp)
RemoveOldPairs ==
    /\ pc = "Manager.removeOldPairs"
    /\ pairs' = ManagerRemoveOldPairs(pairs, upd.timestamp)
    /\ log' = Append(log, Call("Manager.removeOldPairs", "pairs", upd.timestamp))
    /\ pc' = AfterInUpdate(pc)
    /\ UNCHANGED <<engine, timing, world, grid, mouse, run, frame, upd, pending, frames>>

\* if (engine.enableSleeping) Sleeping.afterCollisions(pairs.list)
SleepingAfterCollisions ==
    /\ Statement("Sleeping.afterCollisions",
                 IF engine.enableSleeping
                 THEN << Call("Sleeping.afterCollisions", "pairs.list", 0) >>
                 ELSE << >>)
    /\ UNCHANGED <<engine, timing, pairs, world, grid, mouse, run, frame, upd, pending, frames>>

PreSolveVelocity ==
    /\ Statement("Resolver.preSolveVelocity", << Call("Resolver.preSolveVelocity", "pairs.list", 0) >>)
    /\ UNCHANGED <<engine, timing, pairs, world, grid, mouse, run, frame, upd, pending, frames>>

SolveVelocity ==
    /\ Loop("Resolver.solveVelocity", engine.velocityIterations,
            Call("Resolver.solveVelocity", "pairs.list", 0))
    /\ UNCHANGED <<engine, timing, pairs, world, grid, mouse, run, frame, pending, frames>>

SolvePosition ==
    /\ Loop("Resolver.solvePosition", engine.positionIterations,
            Call("Resolver.solvePosition", "pairs.list", 0))
    /\ UNCHANGED <<engine, timing, pairs, world, grid, mouse, run, frame, pending, frames>>

\* Resolver.postSolvePosition(world.bodies)
PostSolvePosition ==
    /\ Statement("Resolver.postSolvePosition", << Call("Resolver.postSolvePosition", "world.bodies", 0) >>)
    /\ UNCHANGED <<engine, timing, pairs, world, grid, mouse, run, frame, upd, pending, frames>>

MetricsUpdate ==
    /\ Statement("Metrics.update", << Call("Metrics.update", "engine.metrics", 0) >>)
    /\ UNCHANGED <<engine, timing, pairs, world, grid, mouse, run, frame, upd, pending, frames>>

ResetForcesAll ==
    /\ Statement("Body.resetForcesAll", << Call("Body.resetForcesAll", "world.bodies", 0) >>)
    /\ UNCHANGED <<engine, timing, pairs, world, grid, mouse, run, frame, upd, pending, frames>>

\* return engine
ReturnFromUpdate ==
    /\ pc = "return"
    /\ upd' = NoUpdate
    /\ log' = Append(log, Call("return", "engine", 0))
    /\ pc' = AfterInRender("Engine.update")
    /\ UNCHANGED <<engine, timing, pairs, world, grid, mouse, run, frame, pending, frames>>

(***************************************************************************)
(* The rest of the frame callback.                                         *)
(***************************************************************************)
\* the dispatch with its test inverted
CollisionEventInverted(name, list) ==
    IF pairs[list] = {} THEN << Dispatch(name, list, Undefined) >> ELSE << >>

\* a dispatch that does not look at the list's length
CollisionEventAlways(name, list) == << Dispatch(name, list, Undefined) >>

\* if (pairs.<list>.length > 0) Events.trigger(engine, name, { pairs: pairs.<list> })
CollisionEvent(name, list) ==
    IF pairs[list] # {} THEN << Dispatch(name, list, Undefined) >> ELSE << >>

\* _triggerCollisionEvents(engine)
TriggerCollisionEvents ==
    /\ pc = "_triggerCollisionEvents"
    /\ log' = log \o CollisionEvent("collisionStart", "collisionStart")
                  \o CollisionEvent("collisionActive", "collisionActive")
                  \o CollisionEvent("collisionEnd", "collisionEnd")
    /\ pc' = AfterInRender(pc)
    /\ UNCHANGED <<engine, timing, pairs, world, grid, mouse, run, frame, upd, pending, frames>>

MouseEvent(name) ==
    IF name \in mouse THEN << Dispatch(name, "mouse", Undefined) >> ELSE << >>

\* _triggerMouseEvents(engine), with Mouse.clearSourceEvents(mouse) at its end
TriggerMouseEvents ==
    /\ pc = "_triggerMouseEvents"
    /\ log' = log \o MouseEvent("mousemove") \o MouseEvent("mousedown") \o MouseEvent("mouseup")
    /\ mouse' = {}
    /\ pc' = AfterInRender(pc)
    /\ UNCHANGED <<engine, timing, pairs, world, grid, run, frame, upd, pending, frames>>

\* Events.trigger(engine, 'afterUpdate beforeRender', event)
AfterUpdateBeforeRender ==
    /\ pc = "afterUpdate beforeRender"
    /\ log' = Trigger(log, <<"afterUpdate", "beforeRender">>, "event", frame.event.timestamp)
    /\ pc' = AfterInRender(pc)
    /\ UNCHANGED <<engine, timing, pairs, world, grid, mouse, run, frame, upd, pending, frames>>

\* if (engine.render.options.enabled) engine.render.controller.world(engine)
Render ==
    /\ pc = "render"
    /\ log' = IF engine.renderEnabled
              THEN Append(log, Call("render.controller.world", "engine", 0))
              ELSE log
    /\ pc' = AfterInRender(pc)
    /\ UNCHANGED <<engine, timing, pairs, world, grid, mouse, run, frame, upd, pending, frames>>

\* Events.trigger(engine, 'afterTick afterRender', event)
AfterTickAfterRender ==
    /\ pc = "afterTick afterRender"
    /\ log' = Trigger(log, <<"afterTick", "afterRender">>, "event", frame.event.timestamp)
    /\ pc' = AfterInRender(pc)
    /\ UNCHANGED <<engine, timing, pairs, world, grid, mouse, run, frame, upd, pending, frames>>

(***************************************************************************)
(* Between frames: the page enables or disables the engine, and the mouse  *)
(* reports input.                                                          *)
(***************************************************************************)
SetEnabled ==
    /\ pc = "idle"
    /\ frames < MaxFrames
    /\ engine' = [engine EXCEPT !.enabled = ~@]
    /\ UNCHANGED <<timing, pairs, world, grid, mouse, run, frame, upd, pc, pending, frames, log>>

MouseInput ==
    /\ pc = "idle"
    /\ frames < MaxFrames
    /\ \E e \in {"mousemove", "mousedown", "mouseup"} \ mouse : mouse' = mouse \cup {e}
    /\ UNCHANGED <<engine, timing, pairs, world, grid, run, frame, upd, pc, pending, frames, log>>

(***************************************************************************)
(* Engine.clear, called by the page between frames or by a handler of      *)
(* beforeUpdate.                                                           *)
(***************************************************************************)
ClearCalls == { k \in 1..Len(log) : log[k].op = "Engine.clear" }

\* what Engine.clear calls when the current strategy has a controller, the grid
GridRebuild ==
    << Call("Grid.clear", "broadphase.instance", 0),
       Call("Grid.update", "world.bodies", 1) >>

\* a clear that empties the table and keeps the list
EngineClearTableOnly ==
    /\ pc \in {"idle", "Engine.update"}
    /\ Cardinality(ClearCalls) < MaxClears
    /\ pairs' = [pairs EXCEPT !.table = [p \in {} |-> 0]]
    /\ IF engine.broadphase = "grid"
       THEN /\ \E candidates \in GridCandidates(world) : grid' = [grid EXCEPT !.pairsList = candidates]
            /\ log' = log \o << Call("Engine.clear", "engine", 0),
                                Call("World.addComposite", "engine.mouseConstraint", 0) >>
                           \o GridRebuild
       ELSE /\ grid' = grid
            /\ log' = log \o << Call("Engine.clear", "engine", 0),
                                Call("World.addComposite", "engine.mouseConstraint", 0) >>
    /\ UNCHANGED <<engine, timing, world, mouse, run, frame, upd, pc, pending, frames>>

\* Engine.clear(engine)
EngineClear ==
    /\ pc \in {"idle", "Engine.update"}
    /\ Cardinality(ClearCalls) < MaxClears
    /\ pairs' = [pairs EXCEPT !.table = [p \in {} |-> 0], !.list = <<>>]
    /\ IF engine.broadphase = "grid"
       THEN /\ \E candidates \in GridCandidates(world) : grid' = [grid EXCEPT !.pairsList = candidates]
            /\ log' = log \o << Call("Engine.clear", "engine", 0),
                                Call("World.addComposite", "engine.mouseConstraint", 0) >>
                           \o GridRebuild
       ELSE /\ grid' = grid
            /\ log' = log \o << Call("Engine.clear", "engine", 0),
                                Call("World.addComposite", "engine.mouseConstraint", 0) >>
    /\ UNCHANGED <<engine, timing, world, mouse, run, frame, upd, pc, pending, frames>>

\* the statements of Engine.run, the frame callback and Engine.update
Program ==
    \/ EngineRun
    \/ RequestFrame
    \/ CheckEnabled
    \/ CreateEvent
    \/ BeforeTick
    \/ UpdateTiming
    \/ TickBeforeUpdate
    \/ CallUpdate
    \/ MetricsReset
    \/ SleepingUpdate
    \/ ApplyGravityAll
    \/ MouseConstraintUpdate
    \/ BodyUpdateAll
    \/ ConstraintUpdateAll
    \/ Broadphase
    \/ Narrowphase
    \/ UpdatePairs
    \/ RemoveOldPairs
    \/ SleepingAfterCollisions
    \/ PreSolveVelocity
    \/ SolveVelocity
    \/ SolvePosition
    \/ PostSolvePosition
    \/ MetricsUpdate
    \/ ResetForcesAll
    \/ ReturnFromUpdate
    \/ TriggerCollisionEvents
    \/ TriggerMouseEvents
    \/ AfterUpdateBeforeRender
    \/ Render
    \/ AfterTickAfterRender

FrameCallback == FrameCallbackAt(SteadyTimeStamps, MaxFrames)

WorldFrameCallback == FrameCallbackAt(SteadyTimeStamps, MaxWorldFrames)

AnyFrameCallback == FrameCallbackAt(TimeStamps, MaxFrames)

\* every engine configuration, driven at a steady frame rate
Next ==
    \/ Program
    \/ FrameCallback

Spec == Init /\ [][Next]_vars

\* bodies that collide and separate, under the default engine
WorldNext ==
    \/ Program
    \/ WorldFrameCallback

WorldSpec == WorldInit /\ [][WorldNext]_vars

\* the default engine on a page that disables and enables it and delivers
\* frames at any of the timestamps
TimingNext ==
    \/ Program
    \/ AnyFrameCallback
    \/ SetEnabled

TimingSpec == TimingInit /\ [][TimingNext]_vars

\* bodies that collide and separate while the page clears the engine
ClearNext ==
    \/ Program
    \/ WorldFrameCallback
    \/ EngineClear

ClearSpec == WorldInit /\ [][ClearNext]_vars

\* the default engine on a page that disables and enables it while the mouse
\* reports input between frames
PageInit ==
    /\ engine = Create(defaults, defaultBroadphase, TRUE)
    /\ timing = defaultTiming
    /\ world = {}
    /\ Created

PageNext ==
    \/ Program
    \/ FrameCallback
    \/ SetEnabled
    \/ MouseInput

PageSpec == PageInit /\ [][PageNext]_vars

\* the default engine over more frames than the delta history holds, with
\* timestamps that never fall
LaterFrameCallback == FrameCallbackAfter(FrameGaps, MaxSmoothFrames)

SmoothNext ==
    \/ Program
    \/ LaterFrameCallback
    \/ SetEnabled

SmoothSpec == TimingInit /\ [][SmoothNext]_vars

\* the same page, where a started callback runs to its end and the browser
\* fires every callback that was requested
LiveSpec ==
    /\ TimingInit
    /\ [][TimingNext]_vars
    /\ WF_vars(Program)
    /\ WF_vars(AnyFrameCallback)

\* Engine.create called with each kind of first argument, and the engine it
\* returns handed to Engine.run
CreateNext ==
    \/ EngineCreate
    \/ Program
    \/ FrameCallback

CreateSpec == CreateInit /\ [][CreateNext]_vars

(***************************************************************************)
(* Reading the record of the current frame.                                *)
(***************************************************************************)
Calls(op) == { k \in 1..Len(log) : log[k].kind = "call" /\ log[k].op = op }

CallsOf(ops) == { k \in 1..Len(log) : log[k].kind = "call" /\ log[k].op \in ops }

Events(name) == { k \in 1..Len(log) : log[k].kind = "event" /\ log[k].op = name }

Writes(object) == { k \in 1..Len(log) : log[k].kind = "write" /\ log[k].op = object }

Precede(A, B) == \A j \in A, k \in B : j < k

Once(A) == Cardinality(A) = 1

\* Engine.update of this frame has returned
TickDone == Calls("return") # {}

\* the frame callback has run to its end with the engine enabled
FrameDone == pc = "idle" /\ log # <<>>

(***************************************************************************)
(* C1.  Within every call of Engine.update the phases that execute do so   *)
(* in the order grid update, detection, Manager.updatePairs,               *)
(* Manager.removeOldPairs, Sleeping.afterCollisions, velocity solving,     *)
(* position solving, Metrics.update: no call of a later phase is followed  *)
(* by a call of an earlier one, and only the solver phases repeat.         *)
(***************************************************************************)
Phase(op) ==
    CASE op = "Grid.update" -> 1
      [] op \in {"Detector.collisions", "Detector.bruteForce"} -> 2
      [] op = "Manager.updatePairs" -> 3
      [] op = "Manager.removeOldPairs" -> 4
      [] op = "Sleeping.afterCollisions" -> 5
      [] op \in {"Resolver.preSolveVelocity", "Resolver.solveVelocity"} -> 6
      [] op \in {"Resolver.solvePosition", "Resolver.postSolvePosition"} -> 7
      [] op = "Metrics.update" -> 8
      [] OTHER -> 0

PhaseCalls == { k \in 1..Len(log) : log[k].kind = "call" /\ Phase(log[k].op) > 0 }

C1_PhaseOrder ==
    \A j, k \in PhaseCalls :
        j < k => \/ Phase(log[j].op) < Phase(log[k].op)
                 \/ /\ Phase(log[j].op) = Phase(log[k].op)
                    /\ Phase(log[j].op) \in {6, 7}

\* a finished tick in which all eight phases ran
C1_Witness ==
    /\ TickDone
    /\ { Phase(log[k].op) : k \in PhaseCalls } = 1..8
    /\ Calls("Resolver.solveVelocity") # {}
    /\ Calls("Resolver.solvePosition") # {}

(***************************************************************************)
(* C2.  Ticks never overlap: a frame callback starts only when no other    *)
(* frame is in progress, so an Engine.update that has started has returned *)
(* before the next frame (and the next Engine.update) starts, and a frame  *)
(* holds at most one Engine.update.                                        *)
(***************************************************************************)
FrameStarts == frames' # frames

C2_NoOverlap ==
    [][ /\ FrameStarts => /\ pc \in {"init", "idle"}
                          /\ ~InUpdate
                          /\ Calls("Engine.update") # {} => TickDone
        /\ Cardinality(Calls("Engine.update")) <= 1 ]_vars

\* a later frame's Engine.update is in progress while the next frame is already requested
C2_Witness == frames >= 2 /\ InUpdate /\ pending > 0

(***************************************************************************)
(* C3.  While an enabled frame's Engine.update runs, the delta it was      *)
(* given lies between timing.deltaMin and timing.deltaMax, provided that   *)
(* deltaMin <= deltaMax, whatever the frame timestamps were.               *)
(***************************************************************************)
C3_DeltaClamped ==
    (timing.deltaMin <= timing.deltaMax /\ InUpdate) =>
        /\ timing.deltaMin <= upd.delta
        /\ upd.delta <= timing.deltaMax
        /\ \A k \in Calls("Engine.update") : log[k].n = upd.delta

\* a frame after a gap shorter than deltaMin: the smallest sample is raised to deltaMin
C3_Witness ==
    /\ InUpdate
    /\ frames >= 2
    /\ timing.deltaMin <= timing.deltaMax
    /\ MinOf(run.deltaHistory) < timing.deltaMin
    /\ upd.delta = timing.deltaMin

(***************************************************************************)
(* C4.  The Resolver's four phases of a tick: preSolveVelocity once, then  *)
(* solveVelocity velocityIterations times, then solvePosition              *)
(* positionIterations times, then postSolvePosition once.                  *)
(* As claimed, every one of these calls receives pairs.list.               *)
(***************************************************************************)
ResolverPhases ==
    LET pre      == Calls("Resolver.preSolveVelocity")
        velocity == Calls("Resolver.solveVelocity")
        position == Calls("Resolver.solvePosition")
        post     == Calls("Resolver.postSolvePosition")
    IN  /\ Precede(pre, velocity \cup position \cup post)
        /\ Precede(velocity, position \cup post)
        /\ Precede(position, post)
        /\ Cardinality(pre) <= 1
        /\ Cardinality(post) <= 1
        /\ post # {} =>
             /\ Once(pre)
             /\ Cardinality(velocity) = engine.velocityIterations
             /\ Cardinality(position) = engine.positionIterations
        /\ TickDone => Once(post)

C4_Original ==
    /\ ResolverPhases
    /\ \A k \in CallsOf({"Resolver.preSolveVelocity", "Resolver.solveVelocity",
                         "Resolver.solvePosition", "Resolver.postSolvePosition"}) :
           log[k].ref = "pairs.list"

\* C4, amended: the phases and their counts are as claimed; preSolveVelocity,
\* solveVelocity and solvePosition receive pairs.list, and postSolvePosition
\* receives world.bodies.
C4_ResolverPhases ==
    /\ ResolverPhases
    /\ \A k \in CallsOf({"Resolver.preSolveVelocity", "Resolver.solveVelocity",
                         "Resolver.solvePosition"}) :
           log[k].ref = "pairs.list"
    /\ \A k \in Calls("Resolver.postSolvePosition") : log[k].ref = "world.bodies"

\* a finished tick of an engine with the default 4 velocity and 6 position iterations
C4_Witness ==
    /\ TickDone
    /\ engine.velocityIterations = defaults.velocityIterations
    /\ engine.positionIterations = defaults.positionIterations
    /\ Cardinality(Calls("Resolver.solveVelocity")) = 4
    /\ Cardinality(Calls("Resolver.solvePosition")) = 6

(***************************************************************************)
(* C5.  As claimed: in every tick the integrator Body.updateAll is applied *)
(* after the Resolver's iterations, as the last stage after grid update,   *)
(* detector, pair manager, wake check and Resolver.                        *)
(***************************************************************************)
PipelineOps ==
    { "Grid.update", "Detector.collisions", "Detector.bruteForce",
      "Manager.updatePairs", "Manager.removeOldPairs", "Sleeping.afterCollisions",
      "Resolver.preSolveVelocity", "Resolver.solveVelocity",
      "Resolver.solvePosition", "Resolver.postSolvePosition" }

C5_Original ==
    /\ Precede(CallsOf(PipelineOps), Calls("Body.updateAll"))
    /\ TickDone => Once(Calls("Body.updateAll"))

\* C5, amended: in every tick the integrator is applied exactly once, with
\* delta * timeScale, after gravity and the mouse constraint and before the
\* constraint iterations, the grid update, the detector, the pair manager,
\* the wake check and every Resolver phase of that tick.
C5_IntegratorFirst ==
    /\ Precede(Calls("Body.updateAll"), CallsOf(PipelineOps \cup {"Constraint.updateAll"}))
    /\ Precede(CallsOf({"Body.applyGravityAll", "MouseConstraint.update"}), Calls("Body.updateAll"))
    /\ CallsOf(PipelineOps \cup {"Constraint.updateAll"}) # {} => Once(Calls("Body.updateAll"))
    /\ TickDone => Once(Calls("Body.updateAll"))
    /\ \A k \in Calls("Body.updateAll") :
           log[k].ref = "world.bodies" /\ log[k].n = run.delta * engine.timeScale

\* a finished tick in which the Resolver iterated over velocities and positions
C5_Witness ==
    /\ TickDone
    /\ Calls("Resolver.solveVelocity") # {}
    /\ Calls("Resolver.solvePosition") # {}
    /\ Calls("Constraint.updateAll") # {}
    /\ Calls("Grid.update") # {}

(***************************************************************************)
(* C6.  As claimed: in every tick of every engine, the default one         *)
(* included, Sleeping.afterCollisions is run over the pair list after      *)
(* Manager.updatePairs and before Resolver.preSolveVelocity.               *)
(***************************************************************************)
WakeCheckPlace ==
    /\ Precede(CallsOf({"Manager.updatePairs", "Manager.removeOldPairs"}),
               Calls("Sleeping.afterCollisions"))
    /\ Precede(Calls("Sleeping.afterCollisions"),
               CallsOf({"Resolver.preSolveVelocity", "Resolver.solveVelocity",
                        "Resolver.solvePosition", "Resolver.postSolvePosition"}))
    /\ \A k \in Calls("Sleeping.afterCollisions") : log[k].ref = "pairs.list"

C6_Original ==
    /\ WakeCheckPlace
    /\ Calls("Resolver.preSolveVelocity") # {} => Once(Calls("Sleeping.afterCollisions"))

\* C6, amended: in every tick of an engine with enableSleeping set, the wake
\* check runs exactly once over pairs.list, after Manager.updatePairs and
\* Manager.removeOldPairs and before Resolver.preSolveVelocity; with
\* enableSleeping false, the default, it does not run at all.
C6_WakeCheck ==
    /\ WakeCheckPlace
    /\ Calls("Sleeping.afterCollisions") # {} =>
         Once(Calls("Manager.updatePairs")) /\ Once(Calls("Manager.removeOldPairs"))
    /\ Calls("Resolver.preSolveVelocity") # {} =>
         Cardinality(Calls("Sleeping.afterCollisions")) = IF engine.enableSleeping THEN 1 ELSE 0
    /\ ~engine.enableSleeping => Calls("Sleeping.afterCollisions") = {}

\* a finished tick of an engine with sleeping enabled, the wake check made
C6_Witness ==
    /\ TickDone
    /\ engine.enableSleeping
    /\ Once(Calls("Sleeping.afterCollisions"))

(***************************************************************************)
(* C7.  In every tick Constraint.updateAll is called exactly               *)
(* constraintIterations times, all of them before the grid update and the  *)
(* detector, and never after the broad-phase pass has started.             *)
(***************************************************************************)
C7_ConstraintsFirst ==
    LET constraints == Calls("Constraint.updateAll")
        broad == CallsOf({"Grid.update", "Detector.collisions", "Detector.bruteForce"})
    IN  /\ Precede(constraints, broad)
        /\ broad # {} => Cardinality(constraints) = engine.constraintIterations
        /\ TickDone => Cardinality(constraints) = engine.constraintIterations

\* the detector has been called in a tick that solved the constraints first
C7_Witness ==
    /\ engine.constraintIterations >= 1
    /\ Calls("Constraint.updateAll") # {}
    /\ Calls("Grid.update") # {}
    /\ Calls("Detector.collisions") # {}

(***************************************************************************)
(* C8.  No event is dispatched between the entry and the return of         *)
(* Engine.update, and every collision event of a frame is dispatched after *)
(* that frame's Engine.update has returned.                                *)
(***************************************************************************)
AllEvents == { k \in 1..Len(log) : log[k].kind = "event" }

C8_NoEventInUpdate ==
    /\ \A e \in AllEvents :
         (\E u \in Calls("Engine.update") : u < e) => (\E r \in Calls("return") : r < e)
    /\ \A e \in Events("collisionStart") \cup Events("collisionActive") \cup Events("collisionEnd") :
         \E r \in Calls("return") : r < e
    /\ InUpdate => \A e \in AllEvents : Precede({e}, Calls("Engine.update"))

\* a frame in which pairs started to collide and the event was dispatched
C8_Witness ==
    /\ Events("collisionStart") # {}
    /\ Events("beforeUpdate") # {}
    /\ pairs.collisionStart # {}

(***************************************************************************)
(* C9.  In every enabled frame beforeTick is dispatched before engine      *)
(* timing is written and before anything else happens to the engine; tick  *)
(* and beforeUpdate are dispatched after timing.timestamp, delta and       *)
(* correction were set for this frame and before Engine.update is called;  *)
(* the event object of all three carries this frame's timestamp.           *)
(***************************************************************************)
C9_TickEvents ==
    LET before == Events("beforeTick")
        ticks  == Events("tick") \cup Events("beforeUpdate")
        timed  == Writes("engine.timing")
    IN  /\ \A k \in before : k = 1
        /\ Precede(before, timed)
        /\ \A k \in ticks : timed # {} /\ Precede(timed, {k})
        /\ timed # {} => /\ before # {}
                         /\ timing.timestamp = frame.timestamp
                         /\ timing.delta = run.delta
                         /\ timing.correction = run.correction
        /\ Precede(ticks, Calls("Engine.update"))
        /\ Calls("Engine.update") # {} =>
             Once(before) /\ Once(Events("tick")) /\ Once(Events("beforeUpdate"))
        /\ \A k \in before \cup ticks :
             log[k].ref = "event" /\ log[k].n = frame.timestamp
        /\ \A k \in timed : log[k].n = frame.timestamp

\* a later frame has run to its end with a timestamp of its own
C9_Witness ==
    /\ FrameDone
    /\ frames >= 2
    /\ frame.timestamp > 0
    /\ Events("beforeTick") # {}
    /\ Events("beforeUpdate") # {}

(***************************************************************************)
(* C10.  In every enabled frame each of collisionStart, collisionActive    *)
(* and collisionEnd is dispatched if and only if its list in engine.pairs  *)
(* is not empty after the frame's Engine.update; those dispatched come in  *)
(* the order start, active, end, carry that list, and precede afterUpdate, *)
(* which is dispatched exactly once per enabled frame.                     *)
(***************************************************************************)
CollisionLists == {"collisionStart", "collisionActive", "collisionEnd"}

C10_CollisionEvents ==
    /\ \A l \in CollisionLists :
         /\ \A k \in Events(l) : log[k].ref = l
         /\ Precede(Calls("return"), Events(l))
         /\ Events(l) # {} => TickDone
         /\ Precede(Events(l), Events("afterUpdate"))
         /\ Events("afterUpdate") # {} =>
              Cardinality(Events(l)) = IF pairs[l] # {} THEN 1 ELSE 0
    /\ Precede(Events("collisionStart"), Events("collisionActive") \cup Events("collisionEnd"))
    /\ Precede(Events("collisionActive"), Events("collisionEnd"))
    /\ Cardinality(Events("afterUpdate")) <= 1
    /\ FrameDone => Once(Events("afterUpdate"))

\* a finished frame in which pairs started and ended, and one without collision events
C10_Witness ==
    /\ FrameDone
    /\ Events("collisionStart") # {}
    /\ Events("collisionEnd") # {}
    /\ Events("collisionActive") = {}
    /\ pairs.collisionActive = {}

(***************************************************************************)
(* C11.  As claimed: in every frame in which beforeRender is dispatched it *)
(* is followed by a render of the world before any later event, and in     *)
(* every frame in which afterRender or afterTick is dispatched a render of *)
(* the world has happened earlier in that frame.                           *)
(***************************************************************************)
Renders == Calls("render.controller.world")

\* beforeRender is followed by a render before any later event and before the
\* frame ends; afterRender and afterTick come after a render
RenderBetweenEvents ==
    /\ \A b \in Events("beforeRender") :
         /\ \A e \in AllEvents : b < e => \E r \in Renders : b < r /\ r < e
         /\ pc = "idle" => \E r \in Renders : b < r
    /\ \A a \in Events("afterRender") \cup Events("afterTick") :
         \E r \in Renders : r < a

EmptyPairs == [defaultPairs EXCEPT !.table = [p \in {} |-> 0]]

C12_EmptyWorldTick ==
    world = {} =>
        /\ pairs = EmptyPairs
        /\ grid.pairsList = {}
        /\ upd.collisions = {}
        /\ \A l \in CollisionLists : Events(l) = {}

\* a second frame has run to its end over the empty world, grid and detector called
C12_Witness ==
    /\ FrameDone
    /\ frames >= 2
    /\ world = {}
    /\ CallsOf({"Grid.update", "Detector.collisions"}) # {}
    /\ Once(Calls("Manager.updatePairs"))
    /\ Events("afterUpdate") # {}

(***************************************************************************)
(* C13.  As claimed: every call Engine.create(element, options), whether   *)
(* the first argument is an element of the page or not, returns an engine  *)
(* that has every default setting the caller did not override              *)
(* (velocityIterations 4, positionIterations 6, constraintIterations 1,    *)
(* enableSleeping false, enabled true, timeScale 1), an empty pairs table  *)
(* and list, and timing with delta = deltaMin = 1000/60 and                *)
(* deltaMax = 1000/30.                                                     *)
(***************************************************************************)
\* what the caller asked for: a setting of options, or of a first argument
\* that is a plain object, else the default
Requested(element, options, f) ==
    IF f \in DOMAIN options THEN options[f]
    ELSE IF ~IsElement(element) /\ f \in DOMAIN element THEN element[f]
    ELSE defaults[f]

HasDefaults(e, t, p, element, options) ==
    /\ \A f \in DOMAIN defaults :
         f \in DOMAIN e /\ e[f] = Requested(element, options, f)
    /\ "table" \in DOMAIN p /\ DOMAIN p.table = {} /\ p.list = <<>>
    /\ "delta" \in DOMAIN t
    /\ t.delta = (1000 * Ms) \div 60
    /\ t.deltaMin = (1000 * Ms) \div 60
    /\ t.deltaMax = (1000 * Ms) \div 30

C13_Original ==
    [][ pc = "Engine.create" =>
          /\ pc' = "init"
          /\ HasDefaults(engine', timing', pairs', engine.element, engine.options) ]_vars

(***************************************************************************)
(* C14.  The broad-phase strategy of a tick is the one named by            *)
(* engine.broadphase.current.  With the grid strategy the grid is updated  *)
(* from world.bodies exactly once and the detector then receives the       *)
(* grid's pairsList as that update left it; with the brute-force strategy  *)
(* the grid is not updated and the detector receives world.bodies.  Either *)
(* way the detector is called exactly once per tick, and what it returned  *)
(* is what Manager.updatePairs receives.                                   *)
(***************************************************************************)
DetectorCalls == CallsOf({"Detector.collisions", "Detector.bruteForce"})

C14_BroadphaseStrategy ==
    LET updates == Calls("Grid.update")
    IN  /\ InUpdate => upd.broadphase = engine.broadphase
        /\ Cardinality(DetectorCalls) <= 1
        /\ Cardinality(updates) <= 1
        /\ Calls("Manager.updatePairs") # {} => Once(DetectorCalls)
        /\ TickDone => Once(DetectorCalls)
        /\ Precede(updates, DetectorCalls)
        /\ Precede(DetectorCalls, Calls("Manager.updatePairs"))
        /\ \A k \in Calls("Manager.updatePairs") : log[k].ref = "collisions"
        /\ (InUpdate /\ Calls("Manager.updatePairs") # {}) =>
              pairs.collisionStart \cup pairs.collisionActive = upd.collisions
        /\ engine.broadphase = "grid" =>
              /\ DetectorCalls # {} => Once(updates)
              /\ \A k \in updates : log[k].ref = "world.bodies"
              /\ \A k \in DetectorCalls :
                    /\ log[k].op = "Detector.collisions"
                    /\ log[k].ref = "broadphase.instance.pairsList"
              /\ InUpdate => upd.collisions \subseteq grid.pairsList
        /\ engine.broadphase = "bruteForce" =>
              /\ updates = {}
              /\ grid.pairsList = {}
              /\ \A k \in DetectorCalls :
                    /\ log[k].op = "Detector.bruteForce"
                    /\ log[k].ref = "world.bodies"

\* a tick with the grid strategy: the grid left two candidates, the detector
\* found one of them colliding, and Manager.updatePairs has received it
C14_Witness ==
    /\ pc = "Manager.removeOldPairs"
    /\ engine.broadphase = "grid"
    /\ Cardinality(grid.pairsList) = 2
    /\ Cardinality(upd.collisions) = 1
    /\ pairs.collisionStart = upd.collisions

(***************************************************************************)
(* C15.  The frame loop keeps itself going: every frame callback begins by *)
(* requesting the next one, once, whether the engine is enabled or not, so *)
(* from that first statement on exactly one callback is pending; and an    *)
(* engine that is enabled again between frames runs Engine.update again,   *)
(* unless it is disabled once more before the pending callback fires.      *)
(***************************************************************************)
OnePending ==
    /\ pending \in {0, 1}
    /\ pc = "_requestAnimationFrame" => pending = 0 /\ log = <<>>
    /\ pc \notin {"init", "_requestAnimationFrame"} => pending = 1

RequestsFirst ==
    /\ FrameStarts => pc' = "_requestAnimationFrame"
    /\ pc = "_requestAnimationFrame" => pending' = pending + 1 /\ pc' = "enabled"
    /\ pc # "_requestAnimationFrame" => pending' <= pending

\* between frames, enabled, with a callback requested that the browser can still fire
AwaitingFrame ==
    /\ pc = "idle"
    /\ engine.enabled
    /\ frames < MaxFrames

C15_FrameLoop ==
    /\ []OnePending
    /\ [][RequestsFirst]_vars
    /\ AwaitingFrame ~> (InUpdate \/ ~engine.enabled)

\* Engine.update runs in a frame that follows a frame the engine was disabled in
C15_Witness ==
    /\ InUpdate
    /\ frames >= 3
    /\ Len(run.deltaHistory) < frames
    /\ pending = 1

(***************************************************************************)
(* C16.  Within a tick Manager.updatePairs and Manager.removeOldPairs      *)
(* receive the same timestamp, which is engine.timing.timestamp and, under *)
(* Engine.run, the timestamp of the current frame (0 when the callback got *)
(* none).  A frame whose timestamp is not below the previous one does not  *)
(* lower it, and then the age of a pair that stays inactive, measured      *)
(* against it, does not shrink.                                            *)
(***************************************************************************)
ManagerCalls == CallsOf({"Manager.updatePairs", "Manager.removeOldPairs"})

Age(P, p, timestamp) == timestamp - P.table[p].timeUpdated

SameTimestamp ==
    /\ \A k \in ManagerCalls :
         /\ log[k].n = timing.timestamp
         /\ log[k].n = frame.timestamp
         /\ log[k].n = frame.event.timestamp
         /\ log[k].n >= 0
    /\ \A j, k \in ManagerCalls : log[j].n = log[k].n
    /\ (frames = 1 /\ ManagerCalls # {}) => timing.timestamp = 0

AgeGrows ==
    /\ (pc = "timing" /\ frame.timestamp >= timing.timestamp) =>
          timing'.timestamp >= timing.timestamp
    /\ pc # "timing" => timing'.timestamp = timing.timestamp
    /\ timing'.timestamp >= timing.timestamp =>
          \A p \in DOMAIN pairs.table \cap DOMAIN pairs'.table :
              ~pairs'.table[p].isActive =>
                  Age(pairs', p, timing'.timestamp) >= Age(pairs, p, timing.timestamp)

C16_ManagerTimestamp ==
    /\ []SameTimestamp
    /\ [][AgeGrows]_vars

\* a later tick has made both Manager calls while a pair that stopped
\* colliding in an earlier frame is still in the table
C16_Witness ==
    /\ frames >= 2
    /\ timing.timestamp > 0
    /\ Once(Calls("Manager.updatePairs"))
    /\ Once(Calls("Manager.removeOldPairs"))
    /\ \E p \in DOMAIN pairs.table :
         ~pairs.table[p].isActive /\ Age(pairs, p, timing.timestamp) > 0

(***************************************************************************)
(* C17.  Delta smoothing in Engine.run.  The raw delta of an enabled frame *)
(* is its timestamp minus the previous timing.timestamp, or 1000/60 when   *)
(* that difference is 0.  The delta history never holds more than 8        *)
(* entries and holds exactly the raw deltas of the most recent enabled     *)
(* frames, oldest first.  The delta of the tick is the smallest entry of   *)
(* the history, limited to [deltaMin, deltaMax]: a frame gap longer than   *)
(* one of the 7 raw deltas before it leaves the tick's delta where those 7 *)
(* alone would put it.                                                     *)
(***************************************************************************)
Samples(history) == { history[k] : k \in 1..Len(history) }

\* x limited to [deltaMin, deltaMax]; the upper limit wins where the two cross
Limited(x) ==
    IF x > timing.deltaMax \/ timing.deltaMin > timing.deltaMax THEN timing.deltaMax
    ELSE IF x < timing.deltaMin THEN timing.deltaMin
    ELSE x

\* the entries of the history that stay in it when one more is pushed
Preceding(history) ==
    IF Len(history) < 8 THEN history ELSE SubSeq(history, 2, Len(history))

Smoothing ==
    LET difference == frame.timestamp - timing.timestamp
        raw  == IF difference = 0 THEN (1000 * Ms) \div 60 ELSE difference
        old  == run.deltaHistory
        new  == run'.deltaHistory
        kept == Preceding(old)
    IN  /\ pc = "timing" =>
              /\ new = kept \o <<raw>>
              /\ \E d \in Samples(new) :
                    /\ \A e \in Samples(new) : d <= e
                    /\ run'.delta = Limited(d)
              /\ (\E d \in Samples(kept) : d < raw) =>
                    /\ \E d \in Samples(kept) :
                          /\ \A e \in Samples(kept) : d <= e
                          /\ run'.delta = Limited(d)
                    /\ run'.delta <= Limited(raw)
        /\ pc # "timing" => new = old

C17_DeltaSmoothing ==
    /\ [](Len(run.deltaHistory) <= 8)
    /\ [](InUpdate => upd.delta = run.delta)
    /\ [][Smoothing]_vars

\* the tick of a frame that came after a long gap, when the history is full,
\* has lost the first frame's sample, and still holds a smaller one
C17_Witness ==
    /\ InUpdate
    /\ frames >= 10
    /\ Len(run.deltaHistory) = 8
    /\ run.deltaHistory[8] = 5 * 1000
    /\ run.deltaHistory[1] = 5 * 1000
    /\ timing.timestamp >= 7 * 5 * 1000
    /\ \E k \in 2..7 : run.deltaHistory[k] < 5 * 1000
    /\ upd.delta = timing.deltaMin

(***************************************************************************)
(* C18.  The correction of a frame is the frame's limited delta divided by *)
(* the timing.delta the previous enabled frame stored (the initial one for *)
(* the first frame); timing.delta is then set to the frame's delta.  With  *)
(* the default timing every correction lies in [1/2, 2].                   *)
(***************************************************************************)
\* the fraction c is the quotient n / d
IsQuotient(c, n, d) == c[1] * d = c[2] * n /\ c[2] > 0

InRange(c) == c[2] <= 2 * c[1] /\ c[1] <= 2 * c[2]

DefaultLimits ==
    /\ timing.deltaMin = (1000 * Ms) \div 60
    /\ timing.deltaMax = (1000 * Ms) \div 30

Correcting ==
    /\ pc = "timing" =>
          /\ IsQuotient(run'.correction, run'.delta, timing.delta)
          /\ timing'.correction = run'.correction
          /\ timing'.delta = run'.delta
    /\ pc # "timing" =>
          /\ timing'.delta = timing.delta
          /\ timing'.correction = timing.correction
    /\ pc = "Engine.update" =>
          /\ upd'.correction = timing.correction
          /\ upd'.delta = timing.delta

C18_Correction ==
    /\ [][Correcting]_vars
    /\ [](DefaultLimits => InRange(timing.correction) /\ InRange(upd.correction))

\* a tick with correction 1/2: the delta fell from deltaMax to deltaMin
C18_Witness ==
    /\ InUpdate
    /\ DefaultLimits
    /\ upd.correction = <<1, 2>>
    /\ upd.delta = timing.deltaMin

(***************************************************************************)
(* C19.  A frame callback that finds engine.enabled false only requests    *)
(* the next frame: it dispatches no event, leaves engine.timing and the    *)
(* delta history as they were, does not call Engine.update, does not       *)
(* render, and does not clear the mouse's source events.                   *)
(***************************************************************************)
\* what a disabled frame must leave alone
Untouched ==
    /\ timing' = timing
    /\ run' = run
    /\ mouse' = mouse
    /\ pairs' = pairs
    /\ grid' = grid
    /\ upd' = upd
    /\ engine' = engine

DisabledFrame ==
    /\ FrameStarts => Untouched
    /\ pc = "_requestAnimationFrame" =>
          Untouched /\ log = <<>> /\ log' = <<>> /\ pending' = pending + 1
    /\ (pc = "enabled" /\ ~engine.enabled) =>
          /\ Untouched
          /\ log = <<>>
          /\ log' = <<>>
          /\ pending' = pending
          /\ pc' = "idle"

C19_DisabledFrame ==
    /\ [][DisabledFrame]_vars
    /\ [](~engine.enabled => pc \in {"idle", "_requestAnimationFrame", "enabled"})

\* a disabled frame has returned: mouse input is still waiting and the timing
\* is that of the last enabled frame
C19_Witness ==
    /\ pc = "idle"
    /\ ~engine.enabled
    /\ frames >= 2
    /\ frame = NoFrame
    /\ log = <<>>
    /\ pending = 1
    /\ mouse # {}
    /\ timing.timestamp > 0

(***************************************************************************)
(* C20.  Engine.clear(engine) leaves engine.pairs.table and                *)
(* engine.pairs.list empty, so the next pair update finds no pair from     *)
(* before the clear: every collision it is given starts anew.  With the    *)
(* grid strategy the grid is cleared and then rebuilt by a forced update   *)
(* from world.bodies; the mouse constraint is added to the world; and      *)
(* pairs.collisionStart, collisionActive and collisionEnd are left as they *)
(* were.                                                                   *)
(***************************************************************************)
Clears == ClearCalls' \ ClearCalls # {}

\* the calls the clear made, in order
Cleared == SubSeq(log', Len(log) + 1, Len(log'))

Clearing ==
    /\ Clears =>
          /\ DOMAIN pairs'.table = {}
          /\ pairs'.list = <<>>
          /\ \A l \in CollisionLists : pairs'[l] = pairs[l]
          /\ Len(Cleared) >= 2
          /\ Cleared[1].op = "Engine.clear"
          /\ Cleared[2].op = "World.addComposite"
          /\ Cleared[2].ref = "engine.mouseConstraint"
          /\ engine.broadphase = "grid" =>
                /\ Len(Cleared) = 4
                /\ Cleared[3].op = "Grid.clear"
                /\ Cleared[4] = Call("Grid.update", "world.bodies", 1)
                /\ grid'.pairsList \subseteq PairsOf(world)
          /\ engine.broadphase = "bruteForce" =>
                /\ Len(Cleared) = 2
                /\ grid' = grid
          /\ <<engine, timing, world, mouse, run>>' = <<engine, timing, world, mouse, run>>
    \* the next pair update after a clear finds nothing from before it
    /\ (pc = "Manager.updatePairs" /\ DOMAIN pairs.table = {}) =>
          /\ pairs'.collisionStart = upd.collisions
          /\ pairs'.collisionActive = {}
          /\ pairs'.collisionEnd = {}

C20_Clear ==
    /\ [][Clearing]_vars
    /\ []((ClearCalls # {} /\ InUpdate /\ pc # "Manager.updatePairs"
            /\ \E k \in 1..Len(log) : log[k].op = "Manager.updatePairs")
           => /\ pairs.collisionActive = {}
              /\ pairs.collisionEnd = {}
              /\ \A p \in DOMAIN pairs.table : pairs.table[p].timeUpdated = timing.timestamp)

\* between frames, just cleared: the table and list are empty, the grid is
\* rebuilt with candidates, and the last tick's collision lists are still there
C20_Witness ==
    /\ pc = "idle"
    /\ ClearCalls # {}
    /\ log[Len(log)] = Call("Grid.update", "world.bodies", 1)
    /\ DOMAIN pairs.table = {}
    /\ pairs.list = <<>>
    /\ pairs.collisionActive # {}
    /\ pairs.collisionEnd # {}
    /\ grid.pairsList # {}
====
